---- MODULE Spec2Model ----
(***************************************************************************)
(* Point-of-sale back end: the request handlers of the accounts,           *)
(* locations, menu and orders apps, as a state machine over the persisted  *)
(* tables.  Every handler is an operator that maps the current tables, the *)
(* requesting principal and the request payload to a response (status,     *)
(* error) and the tables after the request; the actions apply them.        *)
(***************************************************************************)
EXTENDS Integers, Sequences, FiniteSets, TLC

\* ------------------------------------------------------------------ bounds
\* Location ids the AutoField hands out, and the ids a request may name.
MaxLoc == 2
\* User ids the AutoField hands out (id 1 is the super admin).
MaxUsers == 3
\* Longest location_ids list a request carries.
MaxIdsLen == 2

\* Category and menu item ids the AutoFields hand out.
MaxCat == 2
MaxItem == 2
\* Largest display_order and price a request carries.
MaxOrder == 1
MaxPrice == 2
\* Order ids the AutoField hands out, the longest items list of an order request and
\* the largest quantity of one of its lines.
MaxOrders == 1
MaxLines == 2
MaxQty == 2

LocIds == 1..MaxLoc
CatIds == 1..MaxCat
ItemIds == 1..MaxItem
DisplayOrders == 0..MaxOrder
Prices == 1..MaxPrice
UserIds == 1..MaxUsers
Quantities == 1..MaxQty
LocNames == {"n1", "n2"}
\* 'name' absent from a PATCH payload.
NoName == "absent"

\* ------------------------------------------------------------------- state
VARIABLES
    users,        \* accounts_user rows: id -> [role, locs, createdBy]
    nextUserId,   \* the next id of the user table's AutoField
    locations,    \* locations rows: id -> name
    nextLocId,    \* the next id of the location table's AutoField
    categories,   \* menu category rows: id -> [location, display_order]
    nextCatId,    \* the next id of the category table's AutoField
    items,        \* menu item rows: id -> [category, location, price]
    nextItemId,   \* the next id of the menu item table's AutoField
    orders,       \* order rows: id -> [location, total_amount]
    nextOrderId,  \* the next id of the order table's AutoField
    orderItems,   \* order item rows: a set of [order, menu_item, quantity, price]
    last,         \* the request answered last: [op, actor, status, err]
    inflight,     \* a POST /franchise-admin/ between its writes: [stage, actor, req, id, ...]
    observed      \* the admin ids that GET /franchise-admin/ has returned so far

vars == <<users, nextUserId, locations, nextLocId, categories, nextCatId, items, nextItemId,
          orders, nextOrderId, orderItems, last, inflight, observed>>

\* The persisted tables, as one value.
Tables ==
    [users |-> users, nextUserId |-> nextUserId,
     locations |-> locations, nextLocId |-> nextLocId,
     categories |-> categories, nextCatId |-> nextCatId,
     items |-> items, nextItemId |-> nextItemId,
     orders |-> orders, nextOrderId |-> nextOrderId, orderItems |-> orderItems]
\* The rows alone: what a reader of the tables can see (the id counters left out).
Rows(t) == <<t.users, t.locations, t.categories, t.items, t.orders, t.orderItems>>

\* request.user of a request without credentials (AnonymousUser).
Anonymous == 0
\* User.created_by = None.
NoCreator == 0

\* request.data.get(<key>) of a key the payload does not carry (None).
None == 0
\* A display_order that is no non-negative integer.
BadOrder == -1
\* display_order absent from a PUT payload.
NoOrder == -2

Range(s) == {s[i] : i \in 1..Len(s)}

\* ------------------------------------------------------------- principals
is_authenticated(u) == u \in DOMAIN users
is_super_admin(u) == u \in DOMAIN users /\ users[u].role = "super"
is_franchise_admin(u) == u \in DOMAIN users /\ users[u].role = "admin"
is_staff_member(u) == u \in DOMAIN users /\ users[u].role = "staff"
RoleOf(u) == IF u \in DOMAIN users THEN users[u].role ELSE "anonymous"
\* user.locations.values('id')
user_locations(u) == users[u].locs

\* ------------------------------------------------------ request payloads
\* request.data['location_ids']: absent, a list of ids, or not a list.
Absent == [kind |-> "absent", ids |-> <<>>]
NotAList == [kind |-> "notalist", ids |-> <<>>]
IdList(s) == [kind |-> "list", ids |-> s]
\* The lists are kept sorted: the handlers read a list as the set of its members and
\* its length.
IdSeqs == {s \in UNION {[1..n -> LocIds] : n \in 0..MaxIdsLen} :
              \A i \in 1..(Len(s) - 1) : s[i] <= s[i + 1]}
LocIdsInputs == {Absent, NotAList} \cup {IdList(s) : s \in IdSeqs}
\* 'location_ids' in request.data
Present(lids) == lids.kind # "absent"
\* bool(request.data.get('location_ids'))
Truthy(lids) == lids.kind = "notalist" \/ (lids.kind = "list" /\ Len(lids.ids) > 0)
\* LocationModel.objects.filter(id__in=location_ids)
filter_id_in(ids) == DOMAIN locations \cap Range(ids)

\* ------------------------------------------------------------- responses
\* A response and the tables the request leaves behind.
Resp(status, err, t) == [status |-> status, err |-> err, t |-> t]
\* A response of a request that wrote nothing.
Same(status, err) == Resp(status, err, Tables)
\* The response of a read: for one resource (kind "item") or a list (kind "list"),
\* with the ids of the rows it shows.
ReadResp(status, err, kind, ids) == [status |-> status, err |-> err, kind |-> kind, ids |-> ids]
Refused(status, err) == ReadResp(status, err, "none", {})

\* The tables with the user table replaced, and with one more user id handed out.
WithUsers(u) == [Tables EXCEPT !.users = u]
WithNewUser(u) == [Tables EXCEPT !.users = u, !.nextUserId = nextUserId + 1]

\* User.objects.create_staff_user(..., locations=locations): a new row under a fresh id.
create_staff_user(locs) ==
    users @@ (nextUserId :> [role |-> "staff", locs |-> locs, createdBy |-> NoCreator])
\* user.locations.set(locations)
set_locations(u, id, locs) == [u EXCEPT ![id].locs = locs]
\* user.delete(): the row goes, created_by of the accounts it created is nulled.
delete_user(u, id) ==
    [x \in DOMAIN u \ {id} |->
        IF u[x].createdBy = id THEN [u[x] EXCEPT !.createdBy = NoCreator] ELSE u[x]]

\* --------------------------------------------------- FranchiseAdminView
AdminPostReqs == [fields : BOOLEAN, location_ids : LocIdsInputs]

\* any(...) where the handlers have all(...): one listed location of the set is enough.
ids_overlap(ids, locs) == \E i \in 1..Len(ids) : ids[i] \in locs
\* all(isinstance(loc_id, int) and loc_id in user_locations for loc_id in location_ids)
ids_within(ids, locs) == \A i \in 1..Len(ids) : ids[i] \in locs

\* The checks of post before its first write: 0 when the request passes them.
admin_post_checks(actor, req) ==
    IF ~is_authenticated(actor) THEN [status |-> 401, err |-> "AuthenticationRequired"]
    ELSE IF ~(is_super_admin(actor) \/ is_franchise_admin(actor))
        THEN [status |-> 403, err |-> "NotAuthorized"]
    ELSE IF ~req.fields THEN [status |-> 400, err |-> "MissingFields"]
    ELSE [status |-> 0, err |-> ""]

\* User.objects.create_user(..., is_franchise_admin=True, created_by=request.user) on
\* tables t: the first write of post.
admin_post_create(t, actor) ==
    [t EXCEPT !.users = t.users @@ (t.nextUserId :> [role |-> "admin", locs |-> {},
                                                     createdBy |-> actor]),
              !.nextUserId = t.nextUserId + 1]

\* franchise_admin.delete() on tables t.
admin_post_undo(t, id) == [t EXCEPT !.users = [x \in DOMAIN t.users \ {id} |-> t.users[x]]]

\* The rest of post, on the tables t that hold the new admin under id: the checks of
\* location_ids, each rejecting path deleting the admin again, and locations.set.
admin_post_finish(t, actor, req, id) ==
    LET lids == req.location_ids
        found == DOMAIN t.locations \cap Range(lids.ids)
    IN  IF ~Truthy(lids) THEN Resp(201, "", t)
        ELSE IF lids.kind # "list"
            THEN Resp(400, "LocationIdsNotAList", admin_post_undo(t, id))
        ELSE IF t.users[actor].role = "admin" /\ ~ids_within(lids.ids, t.users[actor].locs)
            THEN Resp(403, "InvalidLocationAccess", admin_post_undo(t, id))
        ELSE IF Cardinality(found) # Len(lids.ids)
            THEN Resp(400, "InvalidLocationIds", admin_post_undo(t, id))
        ELSE Resp(201, "", [t EXCEPT !.users[id].locs = found])

FranchiseAdminView_post(actor, req) ==
    LET c == admin_post_checks(actor, req) IN
    IF c.status # 0 THEN Same(c.status, c.err)
    ELSE admin_post_finish(admin_post_create(Tables, actor), actor, req, nextUserId)

\* The ownership test with an intersection where the handlers have issubset.
admin_owned_overlap(actor, id) ==
    users[id].createdBy = actor /\ users[id].locs \cap user_locations(actor) # {}
\* admin.created_by == request.user and admin_locations.issubset(user_locations)
admin_owned(actor, id) ==
    users[id].createdBy = actor /\ users[id].locs \subseteq user_locations(actor)
\* admin == request.user or (admin.created_by == request.user and
\* admin_locations.issubset(user_locations)).  admin_not_self is the variant that
\* leaves the admin itself out.
admin_not_self(actor, id) == admin_owned(actor, id)
admin_self_or_owned(actor, id) == id = actor \/ admin_owned(actor, id)

\* get without ?id=: the response and the ids of the admins it lists.
FranchiseAdminView_get(actor) ==
    IF ~is_authenticated(actor)
        THEN [status |-> 401, err |-> "AuthenticationRequired", ids |-> {}]
    ELSE IF is_staff_member(actor) THEN [status |-> 403, err |-> "NotAuthorized", ids |-> {}]
    ELSE IF is_super_admin(actor)
        THEN [status |-> 200, err |-> "", ids |-> {u \in DOMAIN users : is_franchise_admin(u)}]
    ELSE IF is_franchise_admin(actor)
        THEN [status |-> 200, err |-> "",
              ids |-> {u \in DOMAIN users : is_franchise_admin(u) /\ admin_owned(actor, u)}
                      \cup {actor}]
    ELSE [status |-> 403, err |-> "NotAuthorized", ids |-> {}]

\* get with ?id=: the response for the one admin.
AdminGetReqs == [id : UserIds]

FranchiseAdminView_get_id(actor, req) ==
    IF ~is_authenticated(actor) THEN Refused(401, "AuthenticationRequired")
    ELSE IF is_staff_member(actor) THEN Refused(403, "NotAuthorized")
    \* get_object_or_404 raises inside the try: the handler answers 500
    ELSE IF ~is_franchise_admin(req.id) THEN Refused(500, "FailedToGetAdmin")
    ELSE IF is_franchise_admin(actor) /\ ~admin_self_or_owned(actor, req.id)
        THEN Refused(403, "NoAccess")
    ELSE ReadResp(200, "", "item", {req.id})

AdminPatchReqs == [id : {None} \cup UserIds, location_ids : LocIdsInputs]

FranchiseAdminView_patch(actor, req) ==
    IF ~is_authenticated(actor) THEN Same(401, "AuthenticationRequired")
    ELSE IF is_staff_member(actor) THEN Same(403, "NotAuthorized")
    ELSE IF ~(is_super_admin(actor) \/ is_franchise_admin(actor)) THEN Same(403, "NotAuthorized")
    ELSE IF req.id = None THEN Same(400, "AdminIdRequired")
    \* get_object_or_404 raises inside the try: the handler answers 500
    ELSE IF ~is_franchise_admin(req.id) THEN Same(500, "FailedToUpdateAdmin")
    ELSE LET lids == req.location_ids IN
         IF is_franchise_admin(actor) /\ ~admin_self_or_owned(actor, req.id)
            THEN Same(403, "NoAccess")
         ELSE IF is_franchise_admin(actor) /\ Truthy(lids) /\ req.id # actor /\ lids.kind # "list"
            THEN Same(400, "LocationIdsNotAList")
         ELSE IF is_franchise_admin(actor) /\ Truthy(lids) /\ req.id # actor
                 /\ ~ids_within(lids.ids, user_locations(actor))
            THEN Same(403, "InvalidLocationAccess")
         ELSE IF ~Truthy(lids) THEN Same(200, "")
         \* filter(id__in=<not a list>) raises: 500
         ELSE IF lids.kind # "list" THEN Same(500, "FailedToUpdateAdmin")
         ELSE IF Cardinality(filter_id_in(lids.ids)) # Len(lids.ids)
            THEN Same(400, "InvalidLocationIds")
         ELSE Resp(200, "", WithUsers(set_locations(users, req.id, filter_id_in(lids.ids))))

AdminDeleteReqs == [id : {None} \cup UserIds]

FranchiseAdminView_delete(actor, req) ==
    IF ~is_authenticated(actor) THEN Same(401, "AuthenticationRequired")
    ELSE IF is_staff_member(actor) THEN Same(403, "NotAuthorized")
    ELSE IF ~(is_super_admin(actor) \/ is_franchise_admin(actor)) THEN Same(403, "NotAuthorized")
    ELSE IF req.id = None THEN Same(400, "AdminIdRequired")
    ELSE IF ~is_franchise_admin(req.id) THEN Same(500, "FailedToDeleteAdmin")
    ELSE IF is_franchise_admin(actor) /\ ~admin_owned(actor, req.id) THEN Same(403, "NoAccess")
    ELSE Resp(204, "", WithUsers(delete_user(users, req.id)))

\* ------------------------------------------------------------- StaffView
StaffPostReqs == [fields : BOOLEAN, location_ids : {Absent} \cup {IdList(s) : s \in IdSeqs}]

StaffView_post(actor, req) ==
    LET lids == req.location_ids IN
    IF ~req.fields \/ ~Present(lids) THEN Same(400, "MissingFields")
    ELSE IF ~Truthy(lids) THEN Same(400, "MissingLocations")
    ELSE IF is_super_admin(actor) THEN
        IF Cardinality(filter_id_in(lids.ids)) # Len(lids.ids)
        THEN Same(400, "InvalidLocationIds")
        ELSE Resp(201, "", WithNewUser(create_staff_user(filter_id_in(lids.ids))))
    ELSE IF is_franchise_admin(actor) THEN
        IF ~ids_within(lids.ids, user_locations(actor))
        THEN Same(403, "LocationNotInScope")
        ELSE Resp(201, "", WithNewUser(create_staff_user(filter_id_in(lids.ids))))
    ELSE Same(403, "NotAuthorized")

\* any(loc in admin_locations for loc in staff_locations)
staff_overlap(actor, id) == users[id].locs \cap user_locations(actor) # {}

StaffPatchReqs == [id : {None} \cup UserIds,
                   location_ids : {Absent} \cup {IdList(s) : s \in IdSeqs}]

StaffView_patch(actor, req) ==
    LET lids == req.location_ids IN
    IF is_staff_member(actor) THEN Same(403, "NotAuthorized")
    ELSE IF req.id = None THEN Same(400, "StaffIdRequired")
    \* get_object_or_404 raises inside the try: the handler answers 404
    ELSE IF ~is_staff_member(req.id) THEN Same(404, "NotFound")
    ELSE IF is_franchise_admin(actor) /\ ~staff_overlap(actor, req.id)
        THEN Same(403, "NoAccessToStaff")
    ELSE IF is_franchise_admin(actor) /\ Present(lids)
            /\ ~ids_within(lids.ids, user_locations(actor))
        THEN Same(403, "LocationNotInScope")
    ELSE IF is_franchise_admin(actor) /\ Present(lids) /\ Len(lids.ids) = 0
        THEN Same(400, "MissingLocations")
    ELSE IF ~Present(lids) THEN Same(200, "")
    ELSE IF Len(lids.ids) = 0 THEN Same(400, "MissingLocations")
    ELSE Resp(200, "", WithUsers(set_locations(users, req.id, filter_id_in(lids.ids))))

StaffDeleteReqs == [id : {None} \cup UserIds]

StaffView_delete(actor, req) ==
    IF req.id = None THEN Same(400, "StaffIdRequired")
    ELSE IF ~is_staff_member(req.id) THEN Same(404, "NotFound")
    ELSE IF is_super_admin(actor) THEN Resp(204, "", WithUsers(delete_user(users, req.id)))
    ELSE IF is_franchise_admin(actor) THEN
        IF ~staff_overlap(actor, req.id) THEN Same(403, "NoAccessToStaff")
        ELSE Resp(204, "", WithUsers(delete_user(users, req.id)))
    ELSE Same(403, "NotAuthorized")

\* A GET of the staff endpoint: ?id= and ?location_id=.
StaffGetReqs == [id : {None} \cup UserIds, location_id : {None} \cup LocIds]

\* any(loc in user_locations for loc in staff_locations): the check of a read of one
\* staff member.  staff_shares_all is the variant that asks for every
\* location of the staff member.
staff_shares_all(actor, id) == users[id].locs \subseteq user_locations(actor)
staff_shares_location(actor, id) ==
    \E loc \in users[id].locs : loc \in user_locations(actor)

\* User.objects.filter(is_staff_member=True, locations__in=user.locations.all())
\* .distinct(): the rows the list of a franchise admin or staff member starts from.
staff_in_locations(actor) ==
    {u \in DOMAIN users :
        is_staff_member(u) /\ \E l \in user_locations(actor) : l \in users[u].locs}

\* staff_query.filter(locations__id=location_id) when ?location_id= is given.
filter_staff_location(ids, location_id) ==
    IF location_id = None THEN ids ELSE {u \in ids : location_id \in users[u].locs}

StaffView_get(actor, req) ==
    IF /\ req.location_id # None
       /\ ~(is_super_admin(actor) \/ is_franchise_admin(actor) \/ is_staff_member(actor))
        THEN Refused(403, "NotAuthorized")
    ELSE IF /\ req.location_id # None
            /\ ~is_super_admin(actor)
            /\ req.location_id \notin user_locations(actor)
        THEN Refused(403, "NoAccessToLocation")
    ELSE IF req.id # None THEN
        \* get_object_or_404 raises inside the try: 404
        IF ~is_staff_member(req.id) THEN Refused(404, "Error")
        ELSE IF /\ is_franchise_admin(actor) \/ is_staff_member(actor)
                /\ ~staff_shares_location(actor, req.id)
            THEN Refused(403, "NoAccessToStaff")
        ELSE ReadResp(200, "", "item", {req.id})
    ELSE IF is_super_admin(actor)
        THEN ReadResp(200, "", "list",
                      filter_staff_location({u \in DOMAIN users : is_staff_member(u)},
                                            req.location_id))
    ELSE IF is_franchise_admin(actor) \/ is_staff_member(actor)
        THEN ReadResp(200, "", "list",
                      filter_staff_location(staff_in_locations(actor), req.location_id))
    ELSE Refused(403, "NotAuthorizedToViewStaff")

\* ---------------------------------------------------------- LocationView
LocationPostReqs == [name : LocNames]

LocationView_post(actor, req) ==
    IF ~is_super_admin(actor) THEN Same(403, "NotAuthorized")
    ELSE Resp(201, "", [Tables EXCEPT !.locations = locations @@ (nextLocId :> req.name),
                                      !.nextLocId = nextLocId + 1])

LocationPatchReqs == [id : {None} \cup LocIds, name : {NoName} \cup LocNames]

\* location.id in [loc['id'] for loc in request.user.locations.values('id')]: the
\* check of a franchise admin's update.  location_assigned_any is the variant
\* that passes every location.
location_assigned_any(actor, id) == TRUE
location_assigned(actor, id) == id \in user_locations(actor)

LocationView_patch(actor, req) ==
    IF ~(is_super_admin(actor) \/ is_franchise_admin(actor)) THEN Same(403, "NotAuthorized")
    ELSE IF req.id = None THEN Same(400, "LocationIdRequired")
    ELSE IF req.id \notin DOMAIN locations THEN Same(404, "LocationNotFound")
    ELSE IF is_franchise_admin(actor) /\ ~location_assigned(actor, req.id)
        THEN Same(403, "LocationNotInScope")
    ELSE IF req.name = NoName THEN Same(200, "")
    ELSE Resp(200, "", [Tables EXCEPT !.locations = [locations EXCEPT ![req.id] = req.name]])

\* A menu item that goes with location id: its own location or its category's.
item_of_location(x, id) ==
    items[x].location = id \/ categories[items[x].category].location = id

\* location.delete(): the row goes with the rows that belong to it (categories, menu
\* items, orders, the user-location assignments).  delete_location_row is the
\* variant that removes the location row alone.
delete_location_row(id) ==
    [Tables EXCEPT !.locations = [l \in DOMAIN locations \ {id} |-> locations[l]]]
delete_location(id) ==
    [Tables EXCEPT
        !.locations = [l \in DOMAIN locations \ {id} |-> locations[l]],
        !.users = [u \in DOMAIN users |-> [users[u] EXCEPT !.locs = @ \ {id}]],
        !.categories = [c \in {x \in DOMAIN categories : categories[x].location # id}
                            |-> categories[c]],
        !.items = [i \in {x \in DOMAIN items : ~item_of_location(x, id)} |-> items[i]],
        \* Order.location and OrderItem.order, OrderItem.menu_item: on_delete=CASCADE
        !.orders = [o \in {x \in DOMAIN orders : orders[x].location # id} |-> orders[o]],
        !.orderItems = {l \in orderItems : /\ orders[l.order].location # id
                                            /\ ~item_of_location(l.menu_item, id)}]

LocationDeleteReqs == [id : {None} \cup LocIds]

LocationView_delete(actor, req) ==
    IF ~is_super_admin(actor) THEN Same(403, "NotAuthorized")
    ELSE IF req.id = None THEN Same(400, "LocationIdRequired")
    ELSE IF req.id \notin DOMAIN locations THEN Same(404, "LocationNotFound")
    ELSE Resp(200, "", delete_location(req.id))

\* A GET of the location endpoint: ?id=.
LocationGetReqs == [id : {None} \cup LocIds]

LocationView_get(actor, req) ==
    IF ~(is_super_admin(actor) \/ is_franchise_admin(actor) \/ is_staff_member(actor))
        THEN Refused(403, "NotAuthorized")
    ELSE IF req.id # None THEN
        IF req.id \notin DOMAIN locations THEN Refused(404, "LocationNotFound")
        ELSE IF /\ ~is_super_admin(actor)
                /\ req.id \notin user_locations(actor)
            THEN Refused(403, "NoAccessToLocation")
        ELSE ReadResp(200, "", "item", {req.id})
    ELSE IF is_super_admin(actor) THEN ReadResp(200, "", "list", DOMAIN locations)
    ELSE ReadResp(200, "", "list", user_locations(actor) \cap DOMAIN locations)

\* ------------------------------------------------------------ CategoryView
\* _check_franchise_admin_locations(user, location_ids); check_locations_skipped is
\* the variant that grants every location.
check_locations_skipped(actor, locs) == TRUE
check_franchise_admin_locations(actor, locs) == \A l \in locs : l \in user_locations(actor)

create_category(loc, order) ==
    [Tables EXCEPT !.categories = categories @@ (nextCatId :> [location |-> loc,
                                                                display_order |-> order]),
                   !.nextCatId = nextCatId + 1]
\* category.delete(): the row goes with the menu items of the category.
delete_category(id) ==
    [Tables EXCEPT
        !.categories = [c \in DOMAIN categories \ {id} |-> categories[c]],
        !.items = [i \in {x \in DOMAIN items : items[x].category # id} |-> items[i]],
        \* OrderItem.menu_item: on_delete=CASCADE
        !.orderItems = {l \in orderItems : items[l.menu_item].category # id}]

CategoryPostReqs == [nameOk : BOOLEAN, location_id : {None} \cup LocIds,
                     display_order : {BadOrder} \cup DisplayOrders]

CategoryView_post(actor, req) ==
    IF ~req.nameOk THEN Same(400, "InvalidName")
    ELSE IF req.location_id = None THEN Same(400, "InvalidLocationId")
    ELSE IF req.display_order < 0 THEN Same(400, "InvalidDisplayOrder")
    ELSE IF req.location_id \notin DOMAIN locations THEN Same(400, "LocationNotFound")
    ELSE IF is_super_admin(actor)
        THEN Resp(201, "", create_category(req.location_id, req.display_order))
    ELSE IF is_franchise_admin(actor) THEN
        IF ~check_franchise_admin_locations(actor, {req.location_id})
        THEN Same(403, "LocationNotInScope")
        ELSE Resp(201, "", create_category(req.location_id, req.display_order))
    ELSE Same(403, "NotAuthorized")

\* The fields a PUT assigns before category.save().
update_category(id, loc, order) ==
    [Tables EXCEPT !.categories = [categories EXCEPT
        ![id] = [location |-> IF loc # None THEN loc ELSE @.location,
                 display_order |-> IF order # NoOrder THEN order ELSE @.display_order]]]

CategoryPutReqs == [id : {None} \cup CatIds, location_id : {None} \cup LocIds,
                    display_order : {NoOrder, BadOrder} \cup DisplayOrders]

CategoryView_put(actor, req) ==
    IF req.id = None THEN Same(400, "InvalidCategoryId")
    ELSE IF req.id \notin DOMAIN categories THEN Same(404, "CategoryNotFound")
    ELSE IF req.display_order = BadOrder THEN Same(400, "InvalidDisplayOrder")
    ELSE IF is_super_admin(actor) THEN
        IF req.location_id # None /\ req.location_id \notin DOMAIN locations
        THEN Same(400, "LocationNotFound")
        ELSE Resp(200, "", update_category(req.id, req.location_id, req.display_order))
    ELSE IF is_franchise_admin(actor) THEN
        LET current_location_id == categories[req.id].location
            new_location_id == IF req.location_id # None THEN req.location_id
                               ELSE current_location_id
        IN  IF ~check_franchise_admin_locations(actor, {current_location_id, new_location_id})
            THEN Same(403, "LocationNotInScope")
            ELSE IF req.location_id # None /\ req.location_id \notin DOMAIN locations
            THEN Same(400, "LocationNotFound")
            ELSE Resp(200, "", update_category(req.id, req.location_id, req.display_order))
    ELSE Same(403, "NotAuthorized")

CategoryDeleteReqs == [id : {None} \cup CatIds]

CategoryView_delete(actor, req) ==
    IF req.id = None THEN Same(400, "InvalidCategoryId")
    ELSE IF req.id \notin DOMAIN categories THEN Same(404, "CategoryNotFound")
    ELSE IF is_super_admin(actor) THEN Resp(200, "", delete_category(req.id))
    ELSE IF is_franchise_admin(actor) THEN
        IF ~check_franchise_admin_locations(actor, {categories[req.id].location})
        THEN Same(403, "LocationNotInScope")
        ELSE Resp(200, "", delete_category(req.id))
    ELSE Same(403, "NotAuthorized")

\* GET /categories/.  The rows a principal is shown: all of them for a super admin,
\* those of its own locations for a franchise admin or a staff member.
category_queryset(actor) ==
    IF is_super_admin(actor) THEN DOMAIN categories
    ELSE {c \in DOMAIN categories : categories[c].location \in user_locations(actor)}

\* .order_by('display_order'): the rows come in non-decreasing display_order, and
\* the query names no second key, so rows of equal display_order come in the order
\* the database happens to produce.  order_by_display_order_then_id is the order
\* with the id as second key, which the query does not ask for.
order_by_display_order_then_id(s) ==
    \A i, j \in 1..Len(s) :
        i < j => \/ categories[s[i]].display_order < categories[s[j]].display_order
                 \/ /\ categories[s[i]].display_order = categories[s[j]].display_order
                    /\ s[i] < s[j]
order_by_display_order(s) ==
    \A i, j \in 1..Len(s) :
        i < j => categories[s[i]].display_order <= categories[s[j]].display_order

\* The listings the query can evaluate to: each row once, in an order the query allows.
category_listings(actor) ==
    LET rows == category_queryset(actor) IN
    {s \in [1..Cardinality(rows) -> rows] : Range(s) = rows /\ order_by_display_order(s)}

\* The response to a listing the database produced.
CategoryView_get(actor, listing) ==
    IF ~(is_super_admin(actor) \/ is_franchise_admin(actor) \/ is_staff_member(actor))
    THEN [status |-> 403, err |-> "NotAuthorized", list |-> << >>]
    ELSE [status |-> 200, err |-> "", list |-> listing]

\* ----------------------------------------------------------- MenuItemsView
\* not (request.user.is_super_admin or request.user.is_franchise_admin), negated: who
\* may write menu items at all.  menu_write_role_any is the variant
\* that lets every logged-in user through.
menu_write_role_any(actor) == is_authenticated(actor)
menu_write_role(actor) == is_super_admin(actor) \/ is_franchise_admin(actor)

\* category.location.id != requested_loc.  category_mismatch_never is the variant
\* that accepts every pair.
category_mismatch_never(cat, loc) == FALSE
category_mismatch(cat, loc) == categories[cat].location # loc

MenuItemPostReqs == [location_id : {None} \cup LocIds, category_id : {None} \cup CatIds,
                     price : Prices]

MenuItemsView_post(actor, req) ==
    IF ~menu_write_role(actor) THEN Same(403, "NotAuthorized")
    \* CategoryModel.objects.get raises DoesNotExist inside the try: 400
    ELSE IF req.category_id \notin DOMAIN categories THEN Same(400, "Error")
    ELSE IF category_mismatch(req.category_id, req.location_id)
        THEN Same(400, "CategoryLocationMismatch")
    ELSE IF req.location_id \notin DOMAIN locations THEN Same(400, "Error")
    ELSE IF is_franchise_admin(actor) /\ req.location_id \notin user_locations(actor)
        THEN Same(403, "LocationNotInScope")
    ELSE Resp(201, "",
              [Tables EXCEPT !.items = items @@ (nextItemId :> [category |-> req.category_id,
                                                                location |-> req.location_id,
                                                                price |-> req.price]),
                             !.nextItemId = nextItemId + 1])

\* request.data.get('location_id', item.location.id), as put's access check reads it
put_new_location(req) == IF req.location_id # None THEN req.location_id
                         ELSE items[req.id].location

\* The fields a PUT assigns before item.save().
update_item(id, cat, loc, price) ==
    [Tables EXCEPT !.items = [items EXCEPT
        ![id] = [category |-> IF cat # None THEN cat ELSE @.category,
                 location |-> IF loc # None THEN loc ELSE @.location,
                 price |-> IF price # None THEN price ELSE @.price]]]

MenuItemPutReqs == [id : {None} \cup ItemIds, location_id : {None} \cup LocIds,
                    category_id : {None} \cup CatIds, price : {None} \cup Prices]

MenuItemsView_put(actor, req) ==
    IF ~menu_write_role(actor) THEN Same(403, "NotAuthorized")
    \* MenuItemModel.objects.get raises DoesNotExist inside the try: 400
    ELSE IF req.id \notin DOMAIN items THEN Same(400, "Error")
    ELSE IF is_franchise_admin(actor) /\ put_new_location(req) \notin user_locations(actor)
        THEN Same(403, "LocationNotInScope")
    ELSE IF req.category_id # None /\ req.category_id \notin DOMAIN categories
        THEN Same(400, "Error")
    ELSE IF req.category_id # None /\ category_mismatch(req.category_id, put_new_location(req))
        THEN Same(400, "CategoryLocationMismatch")
    ELSE IF req.location_id # None /\ req.location_id \notin DOMAIN locations
        THEN Same(400, "Error")
    ELSE Resp(200, "", update_item(req.id, req.category_id, req.location_id, req.price))

MenuItemDeleteReqs == [id : {None} \cup ItemIds]

MenuItemsView_delete(actor, req) ==
    IF ~menu_write_role(actor) THEN Same(403, "NotAuthorized")
    ELSE IF req.id = None THEN Same(400, "MenuItemIdRequired")
    \* get_object_or_404 raises inside the try: 400
    ELSE IF req.id \notin DOMAIN items THEN Same(400, "Error")
    ELSE IF is_franchise_admin(actor) /\ items[req.id].location \notin user_locations(actor)
        THEN Same(403, "LocationNotInScope")
    ELSE Resp(204, "", [Tables EXCEPT
                            !.items = [i \in DOMAIN items \ {req.id} |-> items[i]],
                            \* OrderItem.menu_item: on_delete=CASCADE
                            !.orderItems = {l \in orderItems : l.menu_item # req.id}])

\* A GET /menu-items/ request: ?id= of the URL, and "id" of the request body.
MenuItemGetReqs == [query_id : {None} \cup ItemIds, body_id : {None} \cup ItemIds]

\* item_id = request.data.get('id'): get takes the id from the body and never reads
\* the query string.  Every stored item has is_available = True (post sets it, no
\* handler clears it).
MenuItemsView_get(actor, req) ==
    LET item_id == req.body_id IN
    IF item_id # None THEN
        IF item_id \notin DOMAIN items THEN Refused(404, "MenuItemNotFound")
        ELSE IF is_super_admin(actor) THEN ReadResp(200, "", "item", {item_id})
        ELSE IF is_franchise_admin(actor) \/ is_staff_member(actor) THEN
            IF items[item_id].location \notin user_locations(actor)
            THEN Refused(403, "NoAccessToMenuItem")
            ELSE ReadResp(200, "", "item", {item_id})
        ELSE Refused(403, "NotAuthorized")
    ELSE IF is_super_admin(actor) THEN ReadResp(200, "", "list", DOMAIN items)
    ELSE IF is_franchise_admin(actor) \/ is_staff_member(actor)
        THEN ReadResp(200, "", "list",
                      {i \in DOMAIN items : items[i].location \in user_locations(actor)})
    ELSE Refused(403, "NotAuthorized")

\* --------------------------------------------------------------- OrderView
\* The fields models.py declares for Order and OrderItem ("id" of OrderItem is Django's
\* implicit primary key), and the keyword arguments post hands to objects.create.
Order_fields == {"id", "location", "order_date", "total_amount", "processed_by"}
OrderItem_fields == {"id", "order", "menu_item", "quantity", "price"}
order_create_kwargs ==
    {"location", "order_number", "total_amount", "table_number", "customer_name"}
order_item_create_kwargs == {"order", "menu_item", "quantity", "price", "notes"}

\* Model.__init__ raises TypeError for a keyword that names no field, before any row is
\* written.
create_accepts(fields, kwargs) == kwargs \subseteq fields

\* items of the request body: a list of {menu_item_id, quantity}.
OrderLine == [menu_item_id : {None} \cup ItemIds, quantity : Quantities]
OrderLines == UNION {[1..n -> OrderLine] : n \in 0..MaxLines}
\* total_amount is a total the client sends along; post never reads it.
OrderPostReqs == [location_id : {None} \cup LocIds, items : OrderLines,
                  total_amount : {None} \cup Prices]

\* MenuItemModel.objects.get(id=menu_item_id) raises DoesNotExist for some line of the
\* loop.  missing_menu_item_first is the variant that looks at the
\* first line only.
missing_menu_item_first(lines) == lines[1].menu_item_id \notin DOMAIN items
missing_menu_item(lines) ==
    \E i \in 1..Len(lines) : lines[i].menu_item_id \notin DOMAIN items

\* menu_item.price of a line, as the loop reads it from the stored row.
item_price(line) ==
    IF line.menu_item_id \in DOMAIN items THEN items[line.menu_item_id].price ELSE 0

\* total_amount += item_price * quantity, over the lines in order.
RECURSIVE order_total(_)
order_total(lines) ==
    IF lines = << >> THEN 0
    ELSE item_price(Head(lines)) * Head(lines).quantity + order_total(Tail(lines))

\* The OrderItem rows of the second loop, for the order with the given id.
order_item_rows(id, lines) ==
    {[order |-> id, line |-> i, menu_item |-> lines[i].menu_item_id,
      quantity |-> lines[i].quantity, price |-> item_price(lines[i])] :
         i \in 1..Len(lines)}

\* The response of post with the total_amount the handler had computed when it
\* answered.
OrderResp(status, err, t, total) == Resp(status, err, t) @@ [total_amount |-> total]

\* post reads the request body only, never request.user.
OrderView_post(actor, req) ==
    IF req.location_id \notin DOMAIN locations
        THEN OrderResp(400, "InvalidLocationId", Tables, 0)
    ELSE IF req.items = << >> THEN OrderResp(400, "NoItems", Tables, 0)
    ELSE IF missing_menu_item(req.items)
        THEN OrderResp(400, "InvalidMenuItemId", Tables, 0)
    \* Order.objects.create(...) raises inside the try: 500, nothing written
    ELSE IF ~create_accepts(Order_fields, order_create_kwargs)
        THEN OrderResp(500, "Error", Tables, order_total(req.items))
    \* the first OrderItem.objects.create(...) raises inside the try: 500, and the
    \* order row written before it stays (no transaction is open)
    ELSE IF ~create_accepts(OrderItem_fields, order_item_create_kwargs)
        THEN OrderResp(500, "Error",
                       [Tables EXCEPT
                           !.orders = orders @@ (nextOrderId :>
                               [location |-> req.location_id,
                                total_amount |-> order_total(req.items)]),
                           !.nextOrderId = nextOrderId + 1],
                       order_total(req.items))
    ELSE OrderResp(201, "",
                   [Tables EXCEPT
                       !.orders = orders @@ (nextOrderId :>
                           [location |-> req.location_id,
                            total_amount |-> order_total(req.items)]),
                       !.nextOrderId = nextOrderId + 1,
                       !.orderItems = orderItems \cup order_item_rows(nextOrderId, req.items)],
                   order_total(req.items))

\* ------------------------------------------------------- OrderHistoryView
\* permission_classes = [IsAuthenticated]
OrderHistoryView_permission(actor) == is_authenticated(actor)

\* A GET of the order history: ?order_id= and ?location_id=.
OrderHistoryReqs == [order_id : {None} \cup (1..MaxOrders), location_id : {None} \cup LocIds]

\* The role-based queryset: every order for a super admin, the orders of the caller's
\* locations for a franchise admin or staff member, every order for anyone else.
history_queryset(actor) ==
    IF is_super_admin(actor) THEN DOMAIN orders
    ELSE IF is_franchise_admin(actor) \/ is_staff_member(actor)
        THEN {o \in DOMAIN orders : orders[o].location \in user_locations(actor)}
    ELSE DOMAIN orders

\* not hasattr(user, 'is_super_admin') or user.is_super_admin or
\* user.locations.filter(id=location_id).exists()
\* history_location_allowed_own is the variant that looks at the
\* caller's own locations only.
history_location_allowed_own(actor, location_id) ==
    is_authenticated(actor) /\ location_id \in user_locations(actor)
history_location_allowed(actor, location_id) ==
    \/ ~is_authenticated(actor)
    \/ is_super_admin(actor)
    \/ location_id \in user_locations(actor)

\* order.order_number, read while the response is built: AttributeError unless Order
\* declares the field.
order_number_readable == "order_number" \in Order_fields

OrderHistoryView_get(actor, req) ==
    IF ~OrderHistoryView_permission(actor) THEN Refused(401, "NotAuthenticated")
    ELSE IF req.order_id # None THEN
        \* get_object_or_404 and the AttributeError both end in the except: 404
        IF req.order_id \notin history_queryset(actor) THEN Refused(404, "Error")
        ELSE IF ~order_number_readable THEN Refused(404, "Error")
        ELSE ReadResp(200, "", "item", {req.order_id})
    ELSE IF req.location_id # None /\ ~history_location_allowed(actor, req.location_id)
        THEN Refused(403, "NoAccessToLocation")
    ELSE LET found == {o \in history_queryset(actor) :
                          req.location_id = None \/ orders[o].location = req.location_id} IN
         IF found # {} /\ ~order_number_readable THEN Refused(500, "Error")
         ELSE ReadResp(200, "", "list", found)

\* ----------------------------------------------------------------- APIView
\* The permission check of a view that sets no permission_classes of its own: the
\* project-wide default, which denies a request without credentials.
\* default_permission_allow_any is the variant that lets every request in.
default_permission_allow_any(actor) == TRUE
default_permission(actor) == is_authenticated(actor)

\* APIView.initial: the permission check runs before the handler; r is the handler's
\* response, produced only when the check passes.
initial(actor, r) == IF default_permission(actor) THEN r ELSE Same(401, "NotAuthenticated")
initial_read(actor, r) ==
    IF default_permission(actor) THEN r ELSE Refused(401, "NotAuthenticated")

\* What a caller without credentials is answered by the endpoints that write.
\* FranchiseAdminView tests request.user.is_authenticated itself.
UnauthenticatedWrites ==
    {initial(Anonymous, OrderView_post(Anonymous, q)) : q \in OrderPostReqs}
    \cup {FranchiseAdminView_post(Anonymous, q) : q \in AdminPostReqs}
    \cup {FranchiseAdminView_patch(Anonymous, q) : q \in AdminPatchReqs}
    \cup {FranchiseAdminView_delete(Anonymous, q) : q \in AdminDeleteReqs}
    \cup {initial(Anonymous, StaffView_post(Anonymous, q)) : q \in StaffPostReqs}
    \cup {initial(Anonymous, StaffView_patch(Anonymous, q)) : q \in StaffPatchReqs}
    \cup {initial(Anonymous, StaffView_delete(Anonymous, q)) : q \in StaffDeleteReqs}
    \cup {initial(Anonymous, LocationView_post(Anonymous, q)) : q \in LocationPostReqs}
    \cup {initial(Anonymous, LocationView_patch(Anonymous, q)) : q \in LocationPatchReqs}
    \cup {initial(Anonymous, LocationView_delete(Anonymous, q)) : q \in LocationDeleteReqs}
    \cup {initial(Anonymous, CategoryView_post(Anonymous, q)) : q \in CategoryPostReqs}
    \cup {initial(Anonymous, CategoryView_put(Anonymous, q)) : q \in CategoryPutReqs}
    \cup {initial(Anonymous, CategoryView_delete(Anonymous, q)) : q \in CategoryDeleteReqs}
    \cup {initial(Anonymous, MenuItemsView_post(Anonymous, q)) : q \in MenuItemPostReqs}
    \cup {initial(Anonymous, MenuItemsView_put(Anonymous, q)) : q \in MenuItemPutReqs}
    \cup {initial(Anonymous, MenuItemsView_delete(Anonymous, q)) : q \in MenuItemDeleteReqs}

\* What a caller without credentials is answered by the endpoints that read.
\* OrderHistoryView carries its own permission_classes.
UnauthenticatedReads ==
    {OrderHistoryView_get(Anonymous, q) : q \in OrderHistoryReqs}
    \cup {FranchiseAdminView_get_id(Anonymous, q) : q \in AdminGetReqs}
    \cup {initial_read(Anonymous, StaffView_get(Anonymous, q)) : q \in StaffGetReqs}
    \cup {initial_read(Anonymous, LocationView_get(Anonymous, q)) : q \in LocationGetReqs}
    \cup {initial_read(Anonymous, MenuItemsView_get(Anonymous, q)) : q \in MenuItemGetReqs}

\* ------------------------------------------------------------ the machine
NoRequest == [op |-> "none", actor |-> Anonymous, status |-> 0, err |-> ""]
\* No POST /franchise-admin/ is between its writes.
Idle == [stage |-> "idle", actor |-> Anonymous, req |-> [fields |-> TRUE, location_ids |-> Absent],
         id |-> None, status |-> 0, writes |-> 0]

\* The tables take the values the handler left; the response is recorded.  The id
\* counters stay within the ids the model hands out.
Commit(t) ==
    /\ t.nextUserId <= MaxUsers + 1
    /\ t.nextLocId <= MaxLoc + 1
    /\ t.nextCatId <= MaxCat + 1
    /\ t.nextItemId <= MaxItem + 1
    /\ t.nextOrderId <= MaxOrders + 1
    /\ users' = t.users
    /\ nextUserId' = t.nextUserId
    /\ locations' = t.locations
    /\ nextLocId' = t.nextLocId
    /\ categories' = t.categories
    /\ nextCatId' = t.nextCatId
    /\ items' = t.items
    /\ nextItemId' = t.nextItemId
    /\ orders' = t.orders
    /\ nextOrderId' = t.nextOrderId
    /\ orderItems' = t.orderItems

\* A request handled in one step: its writes and its response.
Apply(op, actor, r) ==
    /\ Commit(r.t)
    /\ last' = [op |-> op, actor |-> actor, status |-> r.status, err |-> r.err]
    /\ UNCHANGED <<inflight, observed>>

\* The authenticated principals: every user row can log in.
Principals == DOMAIN users

AdminPost == \E a \in Principals, req \in AdminPostReqs :
    Apply("AdminPost", a, FranchiseAdminView_post(a, req))
AdminPatch == \E a \in Principals, req \in AdminPatchReqs :
    Apply("AdminPatch", a, FranchiseAdminView_patch(a, req))
AdminDelete == \E a \in Principals, req \in AdminDeleteReqs :
    Apply("AdminDelete", a, FranchiseAdminView_delete(a, req))
StaffPost == \E a \in Principals, req \in StaffPostReqs :
    Apply("StaffPost", a, StaffView_post(a, req))
StaffPatch == \E a \in Principals, req \in StaffPatchReqs :
    Apply("StaffPatch", a, StaffView_patch(a, req))
StaffDelete == \E a \in Principals, req \in StaffDeleteReqs :
    Apply("StaffDelete", a, StaffView_delete(a, req))
\* Every new location is created under the first name.
LocationPost == \E a \in Principals, req \in {r \in LocationPostReqs : r.name = "n1"} :
    Apply("LocationPost", a, LocationView_post(a, req))
\* Menu requests that leave display_order and price at their first values: the
\* scenarios about who may touch which row, and about the category of an item.
CategoryPost ==
    \E a \in Principals, req \in {r \in CategoryPostReqs : r.display_order <= 0} :
        Apply("CategoryPost", a, CategoryView_post(a, req))
CategoryPut ==
    \E a \in Principals, req \in {r \in CategoryPutReqs : r.display_order <= 0} :
        Apply("CategoryPut", a, CategoryView_put(a, req))
MenuItemPost ==
    \E a \in Principals, req \in {r \in MenuItemPostReqs : r.price = 1} :
        Apply("MenuItemPost", a, MenuItemsView_post(a, req))
MenuItemPut ==
    \E a \in Principals, req \in {r \in MenuItemPutReqs : r.price \in {None, 1}} :
        Apply("MenuItemPut", a, MenuItemsView_put(a, req))
LocationDelete == \E a \in Principals, req \in LocationDeleteReqs :
    Apply("LocationDelete", a, LocationView_delete(a, req))
CategoryDelete == \E a \in Principals, req \in CategoryDeleteReqs :
    Apply("CategoryDelete", a, CategoryView_delete(a, req))
MenuItemDelete == \E a \in Principals, req \in MenuItemDeleteReqs :
    Apply("MenuItemDelete", a, MenuItemsView_delete(a, req))

\* POST /create-order/ with one of each menu item at most per line.
OrderPost ==
    \E a \in Principals,
       req \in {r \in OrderPostReqs :
                   /\ r.total_amount = None
                   /\ \A i \in 1..Len(r.items) : r.items[i].quantity = 1} :
        Apply("OrderPost", a, OrderView_post(a, req))

\* A read handled in one step: the tables stay, the response is recorded.
Read(op, actor, r) ==
    /\ last' = [op |-> op, actor |-> actor, status |-> r.status, err |-> r.err]
    /\ UNCHANGED <<users, nextUserId, locations, nextLocId, categories, nextCatId, items,
                   nextItemId, orders, nextOrderId, orderItems, inflight, observed>>

\* GET /franchise-admin/ with and without ?id=.
AdminGet == \E a \in Principals :
    \/ Read("AdminGet", a, FranchiseAdminView_get(a))
    \/ \E req \in AdminGetReqs : Read("AdminGet", a, FranchiseAdminView_get_id(a, req))
StaffGet == \E a \in Principals, req \in StaffGetReqs :
    Read("StaffGet", a, StaffView_get(a, req))
LocationGet == \E a \in Principals, req \in LocationGetReqs :
    Read("LocationGet", a, LocationView_get(a, req))
MenuItemGet == \E a \in Principals, req \in MenuItemGetReqs :
    Read("MenuItemGet", a, MenuItemsView_get(a, req))
OrderHistoryGet == \E a \in Principals, req \in OrderHistoryReqs :
    Read("OrderHistoryGet", a, OrderHistoryView_get(a, req))

LocationPatch == \E a \in Principals, req \in LocationPatchReqs :
    Apply("LocationPatch", a, LocationView_patch(a, req))

\* A request without credentials, to an endpoint that writes and to one that reads.
UnauthenticatedWrite == \E r \in UnauthenticatedWrites :
    Apply("UnauthenticatedWrite", Anonymous, r)
UnauthenticatedRead == \E r \in UnauthenticatedReads :
    Read("UnauthenticatedRead", Anonymous, r)

\* After installation: the super admin (createsuperuser) and empty tables.
SuperAdminRow == [role |-> "super", locs |-> {}, createdBy |-> NoCreator]

Init ==
    /\ users = (1 :> SuperAdminRow)
    /\ nextUserId = 2
    /\ locations = << >>
    /\ nextLocId = 1
    /\ categories = << >>
    /\ nextCatId = 1
    /\ items = << >>
    /\ nextItemId = 1
    /\ orders = << >>
    /\ nextOrderId = 1
    /\ orderItems = {}
    /\ last = NoRequest
    /\ inflight = Idle
    /\ observed = {}

\* Accounts and locations: the super admin builds the franchise from nothing.
Next ==
    \/ AdminPost
    \/ AdminPatch
    \/ AdminDelete
    \/ StaffPost
    \/ StaffPatch
    \/ StaffDelete
    \/ LocationPost
    \/ LocationDelete

Spec == Init /\ [][Next]_vars

\* The menu of a franchise in operation: every location exists, the super admin,
\* a franchise admin assigned the first location only and a staff member of the
\* first location work on categories and menu items.
InitMenu ==
    /\ users = (1 :> SuperAdminRow)
               @@ (2 :> [role |-> "admin", locs |-> {1}, createdBy |-> 1])
               @@ (3 :> [role |-> "staff", locs |-> {1}, createdBy |-> NoCreator])
    /\ nextUserId = 4
    /\ locations = [l \in LocIds |-> "n1"]
    /\ nextLocId = MaxLoc + 1
    /\ categories = << >>
    /\ nextCatId = 1
    /\ items = << >>
    /\ nextItemId = 1
    /\ orders = << >>
    /\ nextOrderId = 1
    /\ orderItems = {}
    /\ last = NoRequest
    /\ inflight = Idle
    /\ observed = {}

NextMenu ==
    \/ CategoryPost
    \/ CategoryPut
    \/ CategoryDelete
    \/ MenuItemPost
    \/ MenuItemPut
    \/ MenuItemDelete

SpecMenu == InitMenu /\ [][NextMenu]_vars

\* The menu and the order desk of the same installation.
NextOrder ==
    \/ CategoryPost
    \/ MenuItemPost
    \/ MenuItemPut
    \/ MenuItemDelete
    \/ OrderPost
    \/ UnauthenticatedWrite
    \/ UnauthenticatedRead

SpecOrder == InitMenu /\ [][NextOrder]_vars

\* Account tables the account endpoints lead to from the installation (each is a
\* reachable state of Spec): a franchise admin next to a staff member of more
\* locations, of another location, and franchise admins next to an admin they
\* created, created and then outgrown by, and did not create.
Account(role, locs, by) == [role |-> role, locs |-> locs, createdBy |-> by]
ReadScenes ==
    {(1 :> SuperAdminRow) @@ (2 :> Account("admin", {1}, 1)) @@ (3 :> other) :
        other \in {Account("staff", LocIds, NoCreator),
                   Account("staff", {MaxLoc}, NoCreator),
                   Account("admin", {1}, 2),
                   Account("admin", LocIds, 2),
                   Account("admin", {1}, 1)}}

\* A franchise in operation whose accounts are one of the scenes, with every location
\* and an empty menu.
InitRead ==
    /\ users \in ReadScenes
    /\ nextUserId = 4
    /\ locations = [l \in LocIds |-> "n1"]
    /\ nextLocId = MaxLoc + 1
    /\ categories = << >>
    /\ nextCatId = 1
    /\ items = << >>
    /\ nextItemId = 1
    /\ orders = << >>
    /\ nextOrderId = 1
    /\ orderItems = {}
    /\ last = NoRequest
    /\ inflight = Idle
    /\ observed = {}

\* The menu is built and every principal reads accounts, locations, menu and orders.
NextRead ==
    \/ CategoryPost
    \/ MenuItemPost
    \/ AdminGet
    \/ StaffGet
    \/ LocationGet
    \/ MenuItemGet
    \/ OrderHistoryGet

SpecRead == InitRead /\ [][NextRead]_vars

\* A franchise with its first location, the accounts of InitMenu and no menu yet.
InitLoc ==
    /\ users = (1 :> SuperAdminRow) @@ (2 :> Account("admin", {1}, 1))
               @@ (3 :> Account("staff", {1}, NoCreator))
    /\ nextUserId = 4
    /\ locations = (1 :> "n1")
    /\ nextLocId = 2
    /\ categories = << >>
    /\ nextCatId = 1
    /\ items = << >>
    /\ nextItemId = 1
    /\ orders = << >>
    /\ nextOrderId = 1
    /\ orderItems = {}
    /\ last = NoRequest
    /\ inflight = Idle
    /\ observed = {}

\* The location endpoint, used by every principal.
NextLoc ==
    \/ LocationPost
    \/ LocationPatch
    \/ LocationDelete
    \/ LocationGet

SpecLoc == InitLoc /\ [][NextLoc]_vars

\* Locations come and go under a menu that is built and moved, and under accounts
\* whose assignments are changed.
NextCascade ==
    \/ LocationPost
    \/ LocationDelete
    \/ CategoryPost
    \/ MenuItemPost
    \/ MenuItemPut
    \/ StaffPatch

SpecCascade == InitLoc /\ [][NextCascade]_vars

\* The category endpoint with every display_order a request can carry, and the
\* listing read by every principal; the listing returned is kept in last.list.
CategoryPostOrdered == \E a \in Principals, req \in CategoryPostReqs :
    Apply("CategoryPost", a, CategoryView_post(a, req))
CategoryPutOrdered == \E a \in Principals, req \in CategoryPutReqs :
    Apply("CategoryPut", a, CategoryView_put(a, req))
CategoryGet == \E a \in Principals : \E listing \in category_listings(a) :
    LET r == CategoryView_get(a, listing) IN
    /\ last' = [op |-> "CategoryGet", actor |-> a, status |-> r.status, err |-> r.err,
                list |-> r.list]
    /\ UNCHANGED <<users, nextUserId, locations, nextLocId, categories, nextCatId, items,
                   nextItemId, orders, nextOrderId, orderItems, inflight, observed>>

NextCategory ==
    \/ CategoryPostOrdered
    \/ CategoryPutOrdered
    \/ CategoryDelete
    \/ CategoryGet

SpecCategory == InitMenu /\ [][NextCategory]_vars

\* An installation with the super admin and an account that holds none of the three
\* role flags (the one LoginView reports under the role 'user'), every location and
\* no staff yet.
InitStaff ==
    /\ users = (1 :> SuperAdminRow) @@ (2 :> Account("user", {}, NoCreator))
    /\ nextUserId = 3
    /\ locations = [l \in LocIds |-> "n1"]
    /\ nextLocId = MaxLoc + 1
    /\ categories = << >>
    /\ nextCatId = 1
    /\ items = << >>
    /\ nextItemId = 1
    /\ orders = << >>
    /\ nextOrderId = 1
    /\ orderItems = {}
    /\ last = NoRequest
    /\ inflight = Idle
    /\ observed = {}

\* The staff endpoint, used by every principal.
NextStaff ==
    \/ StaffPost
    \/ StaffPatch
    \/ StaffDelete
    \/ StaffGet

SpecStaff == InitStaff /\ [][NextStaff]_vars

\* A franchise whose admin and staff member hold every location, with one category
\* in each location and no menu item yet.
InitRevoke ==
    /\ users = (1 :> SuperAdminRow) @@ (2 :> Account("admin", LocIds, 1))
               @@ (3 :> Account("staff", LocIds, NoCreator))
    /\ nextUserId = 4
    /\ locations = [l \in LocIds |-> "n1"]
    /\ nextLocId = MaxLoc + 1
    /\ categories = [c \in LocIds \cap CatIds |-> [location |-> c, display_order |-> 0]]
    /\ nextCatId = Cardinality(LocIds \cap CatIds) + 1
    /\ items = << >>
    /\ nextItemId = 1
    /\ orders = << >>
    /\ nextOrderId = 1
    /\ orderItems = {}
    /\ last = NoRequest
    /\ inflight = Idle
    /\ observed = {}

\* Menu items are created and changed while assignments are changed and locations
\* deleted.
NextRevoke ==
    \/ MenuItemPost
    \/ MenuItemPut
    \/ AdminPatch
    \/ StaffPatch
    \/ LocationDelete

SpecRevoke == InitRevoke /\ [][NextRevoke]_vars

\* POST /franchise-admin/ write by write.  The handler opens no transaction, so each
\* ORM call commits on its own and other requests run between create_user and the
\* calls that follow it.
AdminPostBegin ==
    /\ inflight.stage = "idle"
    /\ \E a \in Principals, req \in AdminPostReqs :
         LET c == admin_post_checks(a, req) IN
         IF c.status # 0
         THEN /\ inflight' = [stage |-> "done", actor |-> a, req |-> req, id |-> None,
                              status |-> c.status, writes |-> 0]
              /\ last' = [op |-> "AdminPost", actor |-> a, status |-> c.status, err |-> c.err]
              /\ Commit(Tables)
         ELSE /\ inflight' = [stage |-> "created", actor |-> a, req |-> req, id |-> nextUserId,
                              status |-> 0, writes |-> 1]
              /\ Commit(admin_post_create(Tables, a))
              /\ UNCHANGED last
    /\ UNCHANGED observed

\* The handler goes on from create_user to its response, on the tables as they are now.
AdminPostFinish ==
    /\ inflight.stage = "created"
    /\ LET r == admin_post_finish(Tables, inflight.actor, inflight.req, inflight.id) IN
         /\ Commit(r.t)
         /\ inflight' = [inflight EXCEPT !.stage = "done", !.status = r.status,
                                         !.writes = IF r.t = Tables THEN @ ELSE @ + 1]
         /\ last' = [op |-> "AdminPost", actor |-> inflight.actor, status |-> r.status,
                     err |-> r.err]
    /\ UNCHANGED observed

\* The response is out; the next POST may come.
AdminPostReturn ==
    /\ inflight.stage = "done"
    /\ inflight' = Idle
    /\ observed' = {}
    /\ Commit(Tables)
    /\ UNCHANGED last

\* GET /franchise-admin/ by any principal, at any moment: the ids it shows are kept.
AdminList ==
    /\ \E a \in Principals :
         LET r == FranchiseAdminView_get(a) IN
         /\ observed' = observed \cup r.ids
         /\ last' = [op |-> "AdminList", actor |-> a, status |-> r.status, err |-> r.err]
    /\ Commit(Tables)
    /\ UNCHANGED inflight

NextConc ==
    \/ AdminPostBegin
    \/ AdminPostFinish
    \/ AdminPostReturn
    \/ AdminList
    \/ LocationPost
    \/ LocationDelete

SpecConc == Init /\ [][NextConc]_vars

\* ------------------------------------------------------------- properties
Success == {200, 201, 204}
Admins == {u \in DOMAIN users : users[u].role = "admin"}
StaffMembers == {u \in DOMAIN users : users[u].role = "staff"}

\* The responses of every request that creates, updates or deletes an admin, a staff
\* account, a location, a category or a menu item, as principal p would get them now.
WriteResponses(p) ==
    {FranchiseAdminView_post(p, q) : q \in AdminPostReqs}
    \cup {FranchiseAdminView_patch(p, q) : q \in AdminPatchReqs}
    \cup {FranchiseAdminView_delete(p, q) : q \in AdminDeleteReqs}
    \cup {StaffView_post(p, q) : q \in StaffPostReqs}
    \cup {StaffView_patch(p, q) : q \in StaffPatchReqs}
    \cup {StaffView_delete(p, q) : q \in StaffDeleteReqs}
    \cup {LocationView_post(p, q) : q \in LocationPostReqs}
    \cup {LocationView_patch(p, q) : q \in LocationPatchReqs}
    \cup {LocationView_delete(p, q) : q \in LocationDeleteReqs}
    \cup {CategoryView_post(p, q) : q \in CategoryPostReqs}
    \cup {CategoryView_put(p, q) : q \in CategoryPutReqs}
    \cup {CategoryView_delete(p, q) : q \in CategoryDeleteReqs}
    \cup {MenuItemsView_post(p, q) : q \in MenuItemPostReqs}
    \cup {MenuItemsView_put(p, q) : q \in MenuItemPutReqs}
    \cup {MenuItemsView_delete(p, q) : q \in MenuItemDeleteReqs}

\* C1: in every reachable state, every create, update or delete request a Staff
\* principal can send for an admin, a staff account, a location, a category or a menu
\* item is answered with a refusal (no 2xx status) and leaves every table as it was.
C1_StaffNeverWrites ==
    \A p \in StaffMembers : \A r \in WriteResponses(p) :
        r.status \notin Success /\ r.t = Tables

\* C1 witness: a staff member's POST /menu-items/ was just refused with 403 while
\* categories and menu items exist.
C1_Witness ==
    /\ last.op = "MenuItemPost" /\ is_staff_member(last.actor) /\ last.status = 403
    /\ DOMAIN categories # {} /\ DOMAIN items # {}

\* A create payload that is valid whoever sends it.
CategoryPostValid(q) ==
    q.nameOk /\ q.display_order >= 0 /\ q.location_id \in DOMAIN locations
MenuItemPostValid(q) ==
    /\ q.category_id \in DOMAIN categories
    /\ q.location_id \in DOMAIN locations
    /\ categories[q.category_id].location = q.location_id
\* A create payload each field of which is well-formed by itself.
CategoryPostWellFormed(q) == q.nameOk /\ q.display_order >= 0 /\ q.location_id # None
MenuItemPostWellFormed(q) == q.category_id \in DOMAIN categories /\ q.location_id # None

C3_CurrentLocationGuardsWrites ==
    \A a \in Admins :
        /\ \A q \in MenuItemPutReqs :
            (q.id \in DOMAIN items /\ items[q.id].location \notin user_locations(a)) =>
                LET r == MenuItemsView_put(a, q) IN r.status \notin Success /\ r.t = Tables
        /\ \A q \in MenuItemDeleteReqs :
            (q.id \in DOMAIN items /\ items[q.id].location \notin user_locations(a)) =>
                LET r == MenuItemsView_delete(a, q) IN r.status \notin Success /\ r.t = Tables
        /\ \A q \in CategoryPutReqs :
            (q.id \in DOMAIN categories /\ categories[q.id].location \notin user_locations(a)) =>
                LET r == CategoryView_put(a, q) IN r.status \notin Success /\ r.t = Tables
        /\ \A q \in CategoryDeleteReqs :
            (q.id \in DOMAIN categories /\ categories[q.id].location \notin user_locations(a)) =>
                LET r == CategoryView_delete(a, q) IN r.status \notin Success /\ r.t = Tables

\* C9: in every reachable state every menu item's location is the location of its
\* category.
C9_ItemLocationIsCategoryLocation ==
    \A i \in DOMAIN items : items[i].location = categories[items[i].category].location

\* A payload that names an existing category of another location than target.
NamesForeignCategory(q, target) ==
    q.category_id \in DOMAIN categories /\ categories[q.category_id].location # target

\* C10 as written (over callers who hold a role that may write menu items): every
\* create or update of a menu item that names a category of another location than the
\* request's target location fails with the category/location integrity error and
\* changes nothing.
C10_MismatchIsIntegrityError ==
    \A p \in {u \in Principals : users[u].role \in {"super", "admin"}} :
        /\ \A q \in MenuItemPostReqs : NamesForeignCategory(q, q.location_id) =>
            LET r == MenuItemsView_post(p, q) IN
            r.err = "CategoryLocationMismatch" /\ r.t = Tables
        /\ \A q \in MenuItemPutReqs :
            (q.id \in DOMAIN items /\ NamesForeignCategory(q, put_new_location(q))) =>
                LET r == MenuItemsView_put(p, q) IN
                r.err = "CategoryLocationMismatch" /\ r.t = Tables

\* C10 amended: such a request never succeeds and changes nothing.  It is answered 400
\* with the category/location integrity error, unless the caller is refused first with
\* 403: a caller who is neither super admin nor franchise admin, or, on update, a
\* franchise admin whose location set lacks the target location.
C10_MismatchNeverStored ==
    \A p \in Principals :
        /\ \A q \in MenuItemPostReqs : NamesForeignCategory(q, q.location_id) =>
            LET r == MenuItemsView_post(p, q) IN
            /\ r.t = Tables
            /\ IF users[p].role \in {"super", "admin"}
               THEN r.status = 400 /\ r.err = "CategoryLocationMismatch"
               ELSE r.status = 403
        /\ \A q \in MenuItemPutReqs :
            (q.id \in DOMAIN items /\ NamesForeignCategory(q, put_new_location(q))) =>
                LET r == MenuItemsView_put(p, q) IN
                /\ r.t = Tables
                /\ IF \/ users[p].role = "super"
                      \/ users[p].role = "admin" /\ put_new_location(q) \in users[p].locs
                   THEN r.status = 400 /\ r.err = "CategoryLocationMismatch"
                   ELSE r.status = 403

\* C10 witness: a franchise admin's PUT /menu-items/ naming a category of another
\* location was just refused with the integrity error.
C10_Witness ==
    /\ last.op = "MenuItemPut" /\ is_franchise_admin(last.actor)
    /\ last.status = 400 /\ last.err = "CategoryLocationMismatch"
    /\ DOMAIN items # {}

\* ------------------------------------------------------------------ C4
\* The ids a location_ids payload lists.
Listed(lids) == Range(lids.ids)
\* The accounts of t that the current state does not hold.
NewAccounts(t) == DOMAIN t.users \ DOMAIN users

\* C4: a franchise admin's create of an admin or staff account whose location_ids list
\* names a location outside the admin's own set is rejected and leaves the account
\* table as it was; with all the needed fields and a non-empty list inside the set (for
\* an admin account, a list that names no location twice) it answers 201 and the one
\* new account holds exactly the listed locations.
C4_CreateAccountAllOrNothing ==
    \A p \in Admins :
        /\ \A q \in AdminPostReqs :
             LET r == FranchiseAdminView_post(p, q) IN
             /\ (q.location_ids.kind = "list" /\ ~(Listed(q.location_ids) \subseteq users[p].locs))
                    => (r.status \notin Success /\ r.t.users = users)
             /\ (q.fields /\ q.location_ids.kind = "list" /\ Len(q.location_ids.ids) > 0
                 /\ Cardinality(Listed(q.location_ids)) = Len(q.location_ids.ids)
                 /\ Listed(q.location_ids) \subseteq users[p].locs)
                    => /\ r.status = 201
                       /\ NewAccounts(r.t) = {nextUserId}
                       /\ r.t.users[nextUserId].role = "admin"
                       /\ r.t.users[nextUserId].locs = Listed(q.location_ids)
        /\ \A q \in StaffPostReqs :
             LET r == StaffView_post(p, q) IN
             /\ (q.location_ids.kind = "list" /\ ~(Listed(q.location_ids) \subseteq users[p].locs))
                    => (r.status \notin Success /\ r.t.users = users)
             /\ (q.fields /\ q.location_ids.kind = "list" /\ Len(q.location_ids.ids) > 0
                 /\ Listed(q.location_ids) \subseteq users[p].locs)
                    => /\ r.status = 201
                       /\ NewAccounts(r.t) = {nextUserId}
                       /\ r.t.users[nextUserId].role = "staff"
                       /\ r.t.users[nextUserId].locs = Listed(q.location_ids)

\* C4 witness: a franchise admin that holds a location has just been refused the create
\* of an account for a list that leaves its set, and no account was added.
C4_Witness ==
    /\ last.op \in {"AdminPost", "StaffPost"}
    /\ is_franchise_admin(last.actor)
    /\ users[last.actor].locs # {}
    /\ last.status = 403
    /\ last.err \in {"InvalidLocationAccess", "LocationNotInScope"}
    /\ Cardinality(DOMAIN users) = 2

\* ------------------------------------------------------------------ C6
\* C6: a franchise admin's update or delete of another admin account whose locations
\* are not all among the acting admin's own is refused and writes nothing, whether or
\* not the two sets share a location and whoever created the target.
C6_AdminWritesNeedSubset ==
    \A p \in Admins : \A a \in Admins \ {p} :
        ~(users[a].locs \subseteq users[p].locs) =>
            /\ \A q \in AdminPatchReqs : q.id = a =>
                 LET r == FranchiseAdminView_patch(p, q) IN
                 r.status = 403 /\ r.t = Tables
            /\ \A q \in AdminDeleteReqs : q.id = a =>
                 LET r == FranchiseAdminView_delete(p, q) IN
                 r.status = 403 /\ r.t = Tables

\* C6 witness: a franchise admin has just been refused a write on an admin it created
\* itself, whose locations overlap its own without being contained in them.
C6_Witness ==
    /\ last.op \in {"AdminPatch", "AdminDelete"}
    /\ is_franchise_admin(last.actor)
    /\ last.status = 403 /\ last.err = "NoAccess"
    /\ \E a \in Admins \ {last.actor} :
          /\ users[a].createdBy = last.actor
          /\ users[a].locs \cap users[last.actor].locs # {}
          /\ ~(users[a].locs \subseteq users[last.actor].locs)

\* ------------------------------------------------------------------ C7
\* C7 (the direction that denies): whenever a franchise admin's update or delete of a
\* staff account succeeds, the staff account's locations are all among the admin's own.
C7_StaffWritesNeedSubset ==
    \A p \in Admins : \A s \in StaffMembers :
        /\ \A q \in StaffPatchReqs : q.id = s =>
             (StaffView_patch(p, q).status \in Success => users[s].locs \subseteq users[p].locs)
        /\ \A q \in StaffDeleteReqs : q.id = s =>
             (StaffView_delete(p, q).status \in Success => users[s].locs \subseteq users[p].locs)

\* ------------------------------------------------------------------ C8
\* C8: every staff account is assigned at least one location.
C8_StaffHasLocation == \A s \in StaffMembers : users[s].locs # {}

\* ------------------------------------------------------------------ C5
\* C5: a POST /franchise-admin/ that has ended rejected (400, 401, 403 or 404) has
\* issued no write, and no list response given meanwhile showed an account it made.
C5_RejectedRequestWroteNothing ==
    (inflight.stage = "done" /\ inflight.status \in {400, 401, 403, 404})
        => (inflight.writes = 0 /\ inflight.id \notin observed)


\* ------------------------------------------------------------------ orders
\* An order request that post must refuse: its location is not stored, it has no
\* line, or one of its lines names a menu item that is not stored.
OrderPostInvalid(q) ==
    \/ q.location_id \notin DOMAIN locations
    \/ q.items = << >>
    \/ \E i \in 1..Len(q.items) : q.items[i].menu_item_id \notin DOMAIN items

\* The sum of stored price times quantity over the first n lines.
RECURSIVE StoredTotal(_, _)
StoredTotal(lines, n) ==
    IF n = 0 THEN 0
    ELSE StoredTotal(lines, n - 1) + items[lines[n].menu_item_id].price * lines[n].quantity

\* C12: an order request whose location does not exist, whose item list is empty or
\* one of whose lines names a menu item that does not exist is answered 400 and
\* writes no Order and no OrderItem (nor anything else); for every other request the
\* total the handler computes is the sum of the stored prices times the quantities,
\* whatever total the request carries.
C12_BadOrderRejected ==
    \A p \in Principals, q \in OrderPostReqs :
        LET r == OrderView_post(p, q) IN
        /\ OrderPostInvalid(q) =>
              /\ r.status = 400
              /\ r.t.orders = orders
              /\ r.t.orderItems = orderItems
              /\ r.t = Tables
        /\ ~OrderPostInvalid(q) =>
              /\ r.status # 400
              /\ r.total_amount = StoredTotal(q.items, Len(q.items))

\* C12: an order request was refused for a missing menu item while menu items exist.
C12_Witness ==
    /\ last.op = "OrderPost"
    /\ last.status = 400
    /\ last.err = "InvalidMenuItemId"
    /\ items # << >>
    /\ orders = << >>
    /\ orderItems = {}


\* ------------------------------------------------------------------ C13
\* C13: a staff member assigned only to location 1 who sends GET /menu-items/?id=<i>
\* for a stored menu item i is answered 403 when i's location is not location 1, and
\* 200 with the payload of the single item i when it is.
C13_StaffReadsItemByQueryId ==
    \A s \in StaffMembers : users[s].locs = {1} =>
        \A i \in DOMAIN items :
            LET r == MenuItemsView_get(s, [query_id |-> i, body_id |-> None]) IN
            IF items[i].location \notin users[s].locs
            THEN r.status = 403
            ELSE r.status = 200 /\ r.kind = "item" /\ r.ids = {i}


\* ------------------------------------------------------------------ C14
\* The ids a list response shows (none when the list is refused).
Shown(r) == IF r.status = 200 /\ r.kind = "list" THEN r.ids ELSE {}
\* A read of one resource that was answered with the resource.
Allowed(r) == r.status = 200 /\ r.kind = "item"

OutOfScopeItemPost(a, q) ==
    /\ q.category_id \in DOMAIN categories
    /\ q.location_id \in DOMAIN locations
    /\ q.location_id \notin users[a].locs

\* C15: a request that the caller's role or location scope does not permit is
\* answered 403 and nothing else: every create-staff request of a staff member, every
\* create-menu-item request of a franchise admin for a stored category and a stored
\* location outside its locations, every read by a franchise admin of a stored admin
\* that is neither itself nor an admin it created within its locations, and every
\* read by a franchise admin or staff member of a stored order of a location outside
\* its locations.
C15_AuthorizationRefusalIs403 ==
    /\ \A s \in StaffMembers : \A q \in StaffPostReqs : StaffView_post(s, q).status = 403
    /\ \A a \in Admins : \A q \in MenuItemPostReqs :
          OutOfScopeItemPost(a, q) => MenuItemsView_post(a, q).status = 403
    /\ \A a \in Admins : \A x \in Admins :
          ~(x = a \/ (users[x].createdBy = a /\ users[x].locs \subseteq users[a].locs))
              => FranchiseAdminView_get_id(a, [id |-> x]).status = 403
    /\ \A p \in Admins \cup StaffMembers : \A o \in DOMAIN orders :
          orders[o].location \notin users[p].locs
              => OrderHistoryView_get(p, [order_id |-> o, location_id |-> None]).status = 403


\* ------------------------------------------------------------------ C17
\* A write that was denied: no success status and every table as it was.
Denied(r) == r.status \notin Success /\ r.t = Tables

\* C17 as claimed: every create, update and delete of a location by a franchise admin
\* or a staff member is denied and leaves the tables unchanged.
C17_OnlySuperAdminWritesLocations ==
    \A p \in Admins \cup StaffMembers :
        /\ \A q \in LocationPostReqs : Denied(LocationView_post(p, q))
        /\ \A q \in LocationPatchReqs : Denied(LocationView_patch(p, q))
        /\ \A q \in LocationDeleteReqs : Denied(LocationView_delete(p, q))

\* C17, amended: every create and delete of a location by a franchise admin or a
\* staff member, every update by a staff member and every update by a franchise admin
\* of a location that is not among its assigned locations is denied and leaves the
\* tables unchanged.
C17_LocationWritesReserved ==
    \A p \in Admins \cup StaffMembers :
        /\ \A q \in LocationPostReqs : Denied(LocationView_post(p, q))
        /\ \A q \in LocationDeleteReqs : Denied(LocationView_delete(p, q))
        /\ \A q \in LocationPatchReqs :
              (is_staff_member(p) \/ q.id \notin users[p].locs)
                  => Denied(LocationView_patch(p, q))

\* C17: a franchise admin's update of a stored location outside its locations was
\* refused.
C17_Witness ==
    /\ last.op = "LocationPatch"
    /\ is_franchise_admin(last.actor)
    /\ last.status = 403
    /\ last.err = "LocationNotInScope"
    /\ DOMAIN locations \ users[last.actor].locs # {}


\* ------------------------------------------------------------------ C18
\* The responses of every read request, as principal p would get them now.
ReadResponses(p) ==
    {FranchiseAdminView_get_id(p, q) : q \in AdminGetReqs}
    \cup {StaffView_get(p, q) : q \in StaffGetReqs}
    \cup {LocationView_get(p, q) : q \in LocationGetReqs}
    \cup {MenuItemsView_get(p, q) : q \in MenuItemGetReqs}
    \cup {OrderHistoryView_get(p, q) : q \in OrderHistoryReqs}

\* C18: no request of a super admin is answered 403, whichever handler it goes to,
\* whatever it names and whatever locations exist: every create, update, delete,
\* order and read request of the payload sets.
C18_SuperAdminNeverRefused ==
    \A p \in DOMAIN users : is_super_admin(p) =>
        /\ \A r \in WriteResponses(p) : r.status # 403
        /\ \A r \in ReadResponses(p) : r.status # 403
        /\ FranchiseAdminView_get(p).status # 403
        /\ \A q \in OrderPostReqs : OrderView_post(p, q).status # 403

\* C18: the super admin, who holds no location, has just read staff or the order
\* history and was answered 200, while a staff member and menu items exist.
C18_Witness ==
    /\ last.op \in {"StaffGet", "OrderHistoryGet"}
    /\ is_super_admin(last.actor)
    /\ users[last.actor].locs = {}
    /\ last.status = 200
    /\ StaffMembers # {}
    /\ DOMAIN items # {}


\* ------------------------------------------------------------------ C19
\* C19: a request without credentials is refused (401 or 403) by every endpoint: the
\* ones that write (admins, staff, locations, categories, menu items, order creation)
\* leave every table as it was, and the ones that read (admins, staff, locations, menu
\* items, order history) show no row.
C19_UnauthenticatedDenied ==
    /\ \A r \in UnauthenticatedWrites : r.status \in {401, 403} /\ r.t = Tables
    /\ \A r \in UnauthenticatedReads : r.status \in {401, 403} /\ r.ids = {}
    /\ FranchiseAdminView_get(Anonymous).status \in {401, 403}
    /\ FranchiseAdminView_get(Anonymous).ids = {}

\* C19: a request without credentials has just been refused while accounts, locations,
\* categories and menu items are stored.
C19_Witness ==
    /\ last.op \in {"UnauthenticatedWrite", "UnauthenticatedRead"}
    /\ last.actor = Anonymous
    /\ last.status = 401
    /\ DOMAIN locations # {}
    /\ DOMAIN categories # {}
    /\ DOMAIN items # {}


\* ------------------------------------------------------------------ C20
\* C20: a delete request of the super admin that names an id under which nothing is
\* stored is answered 404 and leaves every table as it was, for admins, staff,
\* locations, categories and menu items.
C20_DeleteOfMissingIdIs404 ==
    \A p \in DOMAIN users : is_super_admin(p) =>
        /\ \A id \in UserIds \ DOMAIN users :
              /\ FranchiseAdminView_delete(p, [id |-> id]).status = 404
              /\ FranchiseAdminView_delete(p, [id |-> id]).t = Tables
              /\ StaffView_delete(p, [id |-> id]).status = 404
              /\ StaffView_delete(p, [id |-> id]).t = Tables
        /\ \A id \in LocIds \ DOMAIN locations :
              /\ LocationView_delete(p, [id |-> id]).status = 404
              /\ LocationView_delete(p, [id |-> id]).t = Tables
        /\ \A id \in CatIds \ DOMAIN categories :
              /\ CategoryView_delete(p, [id |-> id]).status = 404
              /\ CategoryView_delete(p, [id |-> id]).t = Tables
        /\ \A id \in ItemIds \ DOMAIN items :
              /\ MenuItemsView_delete(p, [id |-> id]).status = 404
              /\ MenuItemsView_delete(p, [id |-> id]).t = Tables


\* ------------------------------------------------------------------ C21
\* C21: in every reachable state every category, menu item and order belongs to a
\* stored location, every menu item to a stored category, every order item to a stored
\* order and a stored menu item, and every account's assigned locations are stored
\* locations: nothing refers to a location that was deleted.
C21_NoDanglingLocation ==
    /\ \A c \in DOMAIN categories : categories[c].location \in DOMAIN locations
    /\ \A i \in DOMAIN items :
          /\ items[i].location \in DOMAIN locations
          /\ items[i].category \in DOMAIN categories
    /\ \A o \in DOMAIN orders : orders[o].location \in DOMAIN locations
    /\ \A l \in orderItems : l.order \in DOMAIN orders /\ l.menu_item \in DOMAIN items
    /\ \A u \in DOMAIN users : users[u].locs \subseteq DOMAIN locations

\* C21: a location has just been deleted that had been assigned to an account and had
\* held categories and menu items; they are gone with it.
C21_Witness ==
    /\ last.op = "LocationDelete"
    /\ last.status = 200
    /\ nextCatId > 1
    /\ nextItemId > 1
    /\ DOMAIN items = {}
    /\ DOMAIN categories = {}
    /\ \E u \in Admins \cup StaffMembers : users[u].locs = {}

\* ------------------------------------------------------------------- C22
\* C22: every category listing a principal is returned is sorted by display_order
\* ascending, and categories of equal display_order appear in ascending id order.
C22_ListingSortedByOrderThenId ==
    (last.op = "CategoryGet" /\ last.status = 200)
        => order_by_display_order_then_id(last.list)

\* What the query does guarantee: display_order never decreases along a listing.
C22_ListingSortedByOrder ==
    (last.op = "CategoryGet" /\ last.status = 200) => order_by_display_order(last.list)

\* A listing of two categories of different display_order.
C22_Witness ==
    /\ last.op = "CategoryGet"
    /\ last.status = 200
    /\ Len(last.list) = 2
    /\ categories[last.list[1]].display_order < categories[last.list[2]].display_order

\* ------------------------------------------------------------------- C23
\* C23: an order request that names an existing location and a non-empty list of
\* existing menu items is answered 201 and stores exactly one more Order and exactly
\* one OrderItem per requested line.
C23_WellFormedOrderIsStored ==
    \A p \in Principals, q \in OrderPostReqs :
        ~OrderPostInvalid(q) =>
            LET r == OrderView_post(p, q) IN
            /\ r.status = 201
            /\ Cardinality(DOMAIN r.t.orders) = Cardinality(DOMAIN orders) + 1
            /\ Cardinality(r.t.orderItems) = Cardinality(orderItems) + Len(q.items)

\* ------------------------------------------------------------------- C24
\* C24: for a franchise admin F and an admin account X, F reads X (alone and in the
\* list) and can update X exactly when X is F itself or X was created by F and X's
\* locations are within F's; F can delete X exactly in the second case; every
\* other request of F on X is refused 403 and writes nothing, whatever locations
\* the two share.
C24_AdminManagesSelfAndCreated ==
    \A f \in Admins, x \in Admins :
        LET created == users[x].createdBy = f /\ users[x].locs \subseteq users[f].locs
            mine == x = f \/ created
            patches == {FranchiseAdminView_patch(f, q) : q \in {r \in AdminPatchReqs : r.id = x}}
            deleted == FranchiseAdminView_delete(f, [id |-> x])
        IN
        /\ (FranchiseAdminView_get_id(f, [id |-> x]).status = 200) <=> mine
        /\ ~mine => FranchiseAdminView_get_id(f, [id |-> x]).status = 403
        /\ (x \in FranchiseAdminView_get(f).ids) <=> mine
        /\ mine => \E r \in patches : r.status = 200
        /\ ~mine => \A r \in patches : r.status = 403 /\ r.t = Tables
        /\ created => deleted.status = 204 /\ x \notin DOMAIN deleted.t.users
        /\ ~created => deleted.status = 403 /\ deleted.t = Tables

\* C24: a franchise admin was refused the read of the one other admin, whom it did
\* not create and with whom it shares a location.
C24_Witness ==
    /\ last.op = "AdminGet"
    /\ last.status = 403
    /\ last.actor \in Admins
    /\ \A x \in Admins \ {last.actor} :
          /\ users[x].createdBy # last.actor
          /\ users[x].locs \cap users[last.actor].locs # {}

\* ------------------------------------------------------------------- C25
\* C25: a logged-in principal that is neither super admin, franchise admin nor staff
\* member is refused by PATCH on the staff endpoint, whichever staff account and
\* whatever locations the request names, and the staff accounts stay as they are.
C25_RolelessPatchDenied ==
    \A p \in Principals :
        ~(is_super_admin(p) \/ is_franchise_admin(p) \/ is_staff_member(p)) =>
            \A q \in {r \in StaffPatchReqs : r.id \in StaffMembers} :
                LET r == StaffView_patch(p, q) IN
                /\ r.status \in {401, 403}
                /\ r.t = Tables

\* ------------------------------------------------------------------- C27
\* C27: no request of a franchise admin enlarges that admin's own location set:
\* after any create, update or delete it sends, and after a PATCH on its own admin
\* account in particular, its locations are among those it held before.
C27_AdminCannotEnlargeOwnLocations ==
    \A f \in Admins :
        \A r \in WriteResponses(f) :
            f \in DOMAIN r.t.users => r.t.users[f].locs \subseteq users[f].locs

\* ------------------------------------------------------------------- C28
\* Every request of principal p that reads or modifies a category or a menu item of
\* location loc is refused and writes nothing, and no listing shows p such a row.
DeniedAt(p, loc) ==
    /\ \A q \in CategoryPutReqs :
          (q.id \in DOMAIN categories /\ categories[q.id].location = loc) =>
              LET r == CategoryView_put(p, q) IN r.status \notin Success /\ r.t = Tables
    /\ \A q \in CategoryDeleteReqs :
          (q.id \in DOMAIN categories /\ categories[q.id].location = loc) =>
              LET r == CategoryView_delete(p, q) IN r.status \notin Success /\ r.t = Tables
    /\ \A q \in MenuItemPutReqs :
          (q.id \in DOMAIN items /\ items[q.id].location = loc) =>
              LET r == MenuItemsView_put(p, q) IN r.status \notin Success /\ r.t = Tables
    /\ \A q \in MenuItemDeleteReqs :
          (q.id \in DOMAIN items /\ items[q.id].location = loc) =>
              LET r == MenuItemsView_delete(p, q) IN r.status \notin Success /\ r.t = Tables
    /\ \A q \in MenuItemGetReqs :
          LET r == MenuItemsView_get(p, q) IN
          /\ (q.body_id \in DOMAIN items /\ items[q.body_id].location = loc)
                => r.status \notin Success
          /\ \A i \in r.ids : items[i].location # loc
    /\ \A s \in category_listings(p) :
          \A c \in Range(CategoryView_get(p, s).list) : categories[c].location # loc

\* C28: authorization follows the current assignment: when a request takes a
\* location out of the location set of a franchise admin or staff member (an update
\* of the account or the deletion of the location), every request that principal
\* then sends to read or modify a category or menu item of that location is refused.
C28_RemovedLocationIsDenied ==
    [][\A p \in Admins \cup StaffMembers, loc \in LocIds :
          (/\ loc \in users[p].locs
           /\ p \in DOMAIN users'
           /\ loc \notin users'[p].locs) => DeniedAt(p, loc)']_vars

\* ------------------------------------------------------------------- C29
\* C29: a franchise admin's update of a staff account's location_ids leaves the
\* staff account's membership in every location outside the admin's own set as it
\* was: outside that set no location is added and none is removed.
C29_StaffPatchKeepsOtherLocations ==
    \A p \in Admins : \A s \in StaffMembers :
        \A q \in {r \in StaffPatchReqs : r.id = s /\ Present(r.location_ids)} :
            LET r == StaffView_patch(p, q) IN
            r.t.users[s].locs \ users[p].locs = users[s].locs \ users[p].locs

====================================================================================
